---- MODULE Spec2Model ----
(***************************************************************************)
(* Model of the UFT MCP repository: the MCP tool dispatcher                *)
(* (src/src/index.ts) and the UFT keyword adapter (src/unnamed/part_000).  *)
(*                                                                         *)
(* JavaScript values are tagged records: t is the value's kind (what       *)
(* typeof and Array.isArray tell apart), the other field is its payload.   *)
(* An object is a function from its own keys to values; a key that is      *)
(* absent reads as undefined, exactly as a property read does.             *)
(***************************************************************************)
EXTENDS Integers, Sequences, FiniteSets, TLC

VARIABLES
  lastCall,        \* server: the call-tool request being answered, and its outcome
  catalog,         \* server: the contents of the UFT_TOOLS array
  lastList,        \* server: the list-tools request being answered, and its outcome
  inflight,        \* server: the call-tool requests whose handlers have started,
                   \* each with its handler's locals and the responses it was sent
  firstCall,       \* history: the first call-tool request answered in the session
  firstList,       \* history: the first list-tools request answered in the session
  between,         \* history: the kinds of answers sent since firstCall's
  initialized,     \* adapter: MCPExtension.initialized
  currentContext,  \* adapter: MCPExtension.currentContext
  registered,      \* host: keyword names passed to a Register call that returned
  startHandlers,   \* host: number of handlers installed with OnTestStart
  endHandlers,     \* host: number of handlers installed with OnTestEnd
  host,            \* host: which of its facilities exist
  lastOp,          \* adapter: the callback the host has run and not yet taken
                   \* the outcome of
  reported,        \* host: the ReportEvent calls made by that callback
  setInRun,        \* history: a MCP_SetContext succeeded since the last test start
  lastSet,         \* history: the value given to the last successful MCP_SetContext
  prevSet,         \* history: the value given to the successful MCP_SetContext
                   \* before that one in the same run, undefined when there is none
  afterSet,        \* history: the last callback to run was a successful MCP_SetContext
  lastGot,         \* history: what the last MCP_GetContext returned, while nothing
                   \* but callbacks that are to leave the slot alone ran since
  build            \* build script: its position, its switches and the files it
                   \* reads and writes (manifest, dist, artifacts), its exit code

vars == <<lastCall, catalog, lastList, inflight, firstCall, firstList, between,
          initialized, currentContext, registered, startHandlers,
          endHandlers, host, lastOp, reported, setInRun, lastSet, prevSet,
          afterSet, lastGot, build>>

sessionVars == <<firstCall, firstList, between>>

\* The build script is no part of either runtime component: a step of the
\* server or of the adapter leaves it alone.
toolingVars == <<build>>

\* All that a step of the adapter leaves alone.
serverVars == <<lastCall, catalog, lastList, inflight, sessionVars, toolingVars>>

\* All that a step of the server leaves alone.
adapterVars == <<initialized, currentContext, registered, startHandlers,
                 endHandlers, host, lastOp, reported, setInRun, lastSet, prevSet,
                 afterSet, lastGot, toolingVars>>

\* All that a step of the build script leaves alone.
runtimeVars == <<lastCall, catalog, lastList, inflight, sessionVars,
                 initialized, currentContext, registered, startHandlers,
                 endHandlers, host, lastOp, reported, setInRun, lastSet, prevSet,
                 afterSet, lastGot>>

-----------------------------------------------------------------------------
(* JavaScript values *)

Undef == [t |-> "undefined"]

Null == [t |-> "null"]

Str(s) == [t |-> "string", s |-> s]

Num(n) == [t |-> "number", n |-> n]

Bool(b) == [t |-> "boolean", b |-> b]

Arr(a) == [t |-> "array", a |-> a]

Obj(f) == [t |-> "object", f |-> f]

EmptyObj == Obj([k \in {} |-> Undef])

\* ToBoolean: what `!x`, `x || y` and `if (x)` test.
Truthy(v) ==
  CASE v.t = "undefined" -> FALSE
    [] v.t = "null"      -> FALSE
    [] v.t = "string"    -> v.s # ""
    [] v.t = "number"    -> v.n # 0
    [] v.t = "boolean"   -> v.b
    [] OTHER             -> TRUE

\* `a || b`
OrElse(a, b) == IF Truthy(a) THEN a ELSE b

\* A property read `v.k` throws a TypeError exactly when v is undefined or null.
Nullish(v) == v.t \in {"undefined", "null"}

\* `v.k` for a v that is not nullish.
Get(v, k) ==
  CASE v.t = "object" -> IF k \in DOMAIN v.f THEN v.f[k] ELSE Undef
    [] v.t = "array"  -> IF k = "length" THEN Num(Len(v.a)) ELSE Undef
    [] v.t = "string" -> IF k = "length" THEN Num(Len(v.s)) ELSE Undef
    [] OTHER          -> Undef

\* The message of the TypeError V8 raises for `v.k` with v nullish.
ReadError(v, k) ==
  "Cannot read properties of " \o v.t \o " (reading '" \o k \o "')"

\* ToString of a primitive, as a template literal or `+` applies it.
PrimToString(v) ==
  CASE v.t = "undefined" -> "undefined"
    [] v.t = "null"      -> "null"
    [] v.t = "string"    -> v.s
    [] v.t = "number"    -> ToString(v.n)
    [] v.t = "boolean"   -> IF v.b THEN "true" ELSE "false"
    [] OTHER             -> "[object Object]"

RECURSIVE JoinFrom(_, _)
\* Array.prototype.join(","), from index i: undefined and null elements are empty.
JoinFrom(a, i) ==
  IF i > Len(a) THEN ""
  ELSE (IF Nullish(a[i]) THEN "" ELSE PrimToString(a[i]))
       \o (IF i < Len(a) THEN "," ELSE "")
       \o JoinFrom(a, i + 1)

\* ToString of any value of the model.
JSToString(v) == IF v.t = "array" THEN JoinFrom(v.a, 1) ELSE PrimToString(v)

RECURSIVE JSONValue(_)
\* What JSON.stringify writes for v, read back by JSON.parse: properties whose
\* value is undefined are dropped, undefined array elements become null.
JSONValue(v) ==
  CASE v.t = "object" ->
         Obj([k \in {j \in DOMAIN v.f : v.f[j].t # "undefined"} |-> JSONValue(v.f[k])])
    [] v.t = "array" ->
         Arr([i \in 1..Len(v.a) |->
                IF v.a[i].t = "undefined" THEN Null ELSE JSONValue(v.a[i])])
    [] OTHER -> v

\* JSON.stringify(v): the text, kept as the document it denotes.
JSONstringify(v) == [text |-> JSONValue(v)]

\* JSON.parse(s)
JSONparse(s) == s.text

-----------------------------------------------------------------------------
(* Completion of a block: a returned value or a thrown Error *)

Return(v) == [threw |-> FALSE, value |-> v, message |-> ""]

Throw(m) == [threw |-> TRUE, value |-> Undef, message |-> m]


-----------------------------------------------------------------------------
(* The tool catalog *)

\* The catalog: each tool's name, the fields its schema declares required, and
\* the enumerations its schema declares for top-level string fields.
UFT_TOOLS ==
  << [name |-> "create_uft_test",
      required |-> <<"testName", "actions">>,
      enums |-> [k \in {} |-> {}]],
     [name |-> "execute_uft_test",
      required |-> <<"testPath">>,
      enums |-> [k \in {} |-> {}]],
     [name |-> "analyze_test_results",
      required |-> <<"resultPath">>,
      enums |-> [reportFormat |-> {"html", "xml", "json", "summary"}]],
     [name |-> "manage_object_repository",
      required |-> <<"action">>,
      enums |-> [action |-> {"add", "update", "query", "delete", "list"}]],
     [name |-> "generate_test_data",
      required |-> <<"dataType", "schema", "recordCount">>,
      enums |-> [dataType |-> {"excel", "csv", "xml", "database"}]],
     [name |-> "capture_application_objects",
      required |-> <<"applicationPath">>,
      enums |-> [captureMode |-> {"manual", "automatic", "smart"}]],
     [name |-> "create_test_suite",
      required |-> <<"suiteName", "tests">>,
      enums |-> [executionOrder |-> {"sequential", "parallel", "priority"}]],
     [name |-> "schedule_test_execution",
      required |-> <<"testOrSuite", "schedule">>,
      enums |-> [k \in {} |-> {}]],
     [name |-> "generate_test_documentation",
      required |-> <<"testPath", "documentationType">>,
      enums |-> [documentationType |-> {"detailed", "summary", "technical", "user-guide"},
                 outputFormat |-> {"html", "pdf", "word", "markdown"}]],
     [name |-> "debug_test_failure",
      required |-> <<"failedTestPath">>,
      enums |-> [k \in {} |-> {}]] >>

ToolNames == {UFT_TOOLS[i].name : i \in 1..Len(UFT_TOOLS)}

ToolNamed(n) == CHOOSE tool \in {UFT_TOOLS[i] : i \in 1..Len(UFT_TOOLS)} : tool.name = n

Required(n) == {ToolNamed(n).required[i] : i \in 1..Len(ToolNamed(n).required)}

\* The JSON type the schema declares for each required field.
DeclaredType(k) ==
  CASE k \in {"actions", "tests"}    -> "array"
    [] k \in {"schema", "schedule"}  -> "object"
    [] k = "recordCount"             -> "number"
    [] OTHER                         -> "string"

-----------------------------------------------------------------------------
(* generateTestScript *)

\* StepLines numbering the steps with forEach's zero-based index.
StepLines_ZeroBased(action, index) ==
  << "' Step " \o ToString(index - 1) \o ": " \o JSToString(Get(action, "description")),
     JSToString(Get(action, "object")) \o "." \o JSToString(Get(action, "type"))
       \o (IF Truthy(Get(action, "value"))
           THEN " \"" \o JSToString(Get(action, "value")) \o "\""
           ELSE ""),
     "" >>

\* The two lines and the blank line one action adds to the script.
StepLines(action, index) ==
  << "' Step " \o ToString(index) \o ": " \o JSToString(Get(action, "description")),
     JSToString(Get(action, "object")) \o "." \o JSToString(Get(action, "type"))
       \o (IF Truthy(Get(action, "value"))
           THEN " \"" \o JSToString(Get(action, "value")) \o "\""
           ELSE ""),
     "" >>

RECURSIVE StepsFrom(_, _)
StepsFrom(a, i) ==
  IF i > Len(a) THEN <<>> ELSE StepLines(a[i], i) \o StepsFrom(a, i + 1)

\* The script is kept as the sequence of its newline-terminated lines.
Script(lines) == [t |-> "string", lines |-> lines]

\* generateTestScript(test) at time `now`; test is not nullish (the caller read
\* test.testName before).
generateTestScript(test, now) ==
  LET actions == Get(test, "actions")
      header == << "' UFT Test Script: " \o JSToString(Get(test, "testName")),
                   "' Description: "
                     \o JSToString(OrElse(Get(test, "testDescription"), Str("N/A"))),
                   "' Application: "
                     \o JSToString(OrElse(Get(test, "applicationUnderTest"), Str("N/A"))),
                   "' Generated: " \o now,
                   "" >>
  IN  IF Nullish(actions) THEN Throw(ReadError(actions, "forEach"))
      ELSE IF actions.t # "array" THEN Throw("test.actions.forEach is not a function")
      ELSE IF \E i \in 1..Len(actions.a) : Nullish(actions.a[i])
      THEN LET bad == CHOOSE i \in 1..Len(actions.a) :
                        /\ Nullish(actions.a[i])
                        /\ \A j \in 1..(i - 1) : ~Nullish(actions.a[j])
           IN  Throw(ReadError(actions.a[bad], "description"))
      ELSE Return(Script(header \o StepsFrom(actions.a, 1)))

-----------------------------------------------------------------------------
(* handleToolCall: the switch, one operator per case *)

\* Every case reads a property of `params` first: that read throws when the
\* arguments are absent or null.
\* CreateUftTest reporting the actions array itself instead of its length.
CreateUftTest_NoCount(args, now) ==
  IF Nullish(args) THEN Throw(ReadError(args, "testName"))
  ELSE LET script == generateTestScript(args, now)
       IN  IF script.threw THEN script
           ELSE Return(Obj(
                  [status |-> Str("success"),
                   testName |-> Get(args, "testName"),
                   message |-> Str("UFT test '" \o JSToString(Get(args, "testName"))
                                     \o "' created successfully"),
                   testScript |-> script.value,
                   actions |-> Get(args, "actions")]))

CreateUftTest(args, now) ==
  IF Nullish(args) THEN Throw(ReadError(args, "testName"))
  ELSE LET script == generateTestScript(args, now)
       IN  IF script.threw THEN script
           ELSE Return(Obj(
                  [status |-> Str("success"),
                   testName |-> Get(args, "testName"),
                   message |-> Str("UFT test '" \o JSToString(Get(args, "testName"))
                                     \o "' created successfully"),
                   testScript |-> script.value,
                   actions |-> Get(Get(args, "actions"), "length")]))

ExecuteUftTest(args) ==
  IF Nullish(args) THEN Throw(ReadError(args, "testPath"))
  ELSE Return(Obj(
         [status |-> Str("success"),
          testPath |-> Get(args, "testPath"),
          message |-> Str("Test execution completed"),
          executionTime |-> Str("45s"),
          passed |-> Num(8),
          failed |-> Num(2),
          warnings |-> Num(1)]))

AnalyzeTestResults(args) ==
  IF Nullish(args) THEN Throw(ReadError(args, "resultPath"))
  ELSE Return(Obj(
         [status |-> Str("success"),
          resultPath |-> Get(args, "resultPath"),
          format |-> OrElse(Get(args, "reportFormat"), Str("summary")),
          message |-> Str("Analysis complete"),
          summary |-> Obj([totalTests |-> Num(10), passed |-> Num(8),
                           failed |-> Num(2), passRate |-> Str("80%")])]))

\* ManageObjectRepository taking a missing objectName from the adapter's
\* context slot.
ManageObjectRepository_FromContext(args) ==
  IF Nullish(args) THEN Throw(ReadError(args, "action"))
  ELSE Return(Obj(
         [status |-> Str("success"),
          action |-> Get(args, "action"),
          message |-> Str("Object repository " \o JSToString(Get(args, "action"))
                            \o " operation completed"),
          objectName |-> OrElse(Get(args, "objectName"),
                                OrElse(Get(currentContext, "id"), Str("N/A")))]))

\* ManageObjectRepository without the `|| "N/A"` default.
ManageObjectRepository_NoDefault(args) ==
  IF Nullish(args) THEN Throw(ReadError(args, "action"))
  ELSE Return(Obj(
         [status |-> Str("success"),
          action |-> Get(args, "action"),
          message |-> Str("Object repository " \o JSToString(Get(args, "action"))
                            \o " operation completed"),
          objectName |-> Get(args, "objectName")]))

ManageObjectRepository(args) ==
  IF Nullish(args) THEN Throw(ReadError(args, "action"))
  ELSE Return(Obj(
         [status |-> Str("success"),
          action |-> Get(args, "action"),
          message |-> Str("Object repository " \o JSToString(Get(args, "action"))
                            \o " operation completed"),
          objectName |-> OrElse(Get(args, "objectName"), Str("N/A"))]))

GenerateTestData(args) ==
  IF Nullish(args) THEN Throw(ReadError(args, "dataType"))
  ELSE Return(Obj(
         [status |-> Str("success"),
          dataType |-> Get(args, "dataType"),
          recordsGenerated |-> Get(args, "recordCount"),
          outputPath |-> OrElse(Get(args, "outputPath"),
                                Str("generated_data." \o JSToString(Get(args, "dataType")))),
          message |-> Str("Generated " \o JSToString(Get(args, "recordCount")) \o " "
                            \o JSToString(Get(args, "dataType")) \o " records")]))

CaptureApplicationObjects(args) ==
  IF Nullish(args) THEN Throw(ReadError(args, "applicationPath"))
  ELSE Return(Obj(
         [status |-> Str("success"),
          application |-> Get(args, "applicationPath"),
          captureMode |-> OrElse(Get(args, "captureMode"), Str("automatic")),
          objectsCaptured |-> Num(15),
          message |-> Str("Application objects captured successfully")]))

CreateTestSuite(args) ==
  IF Nullish(args) THEN Throw(ReadError(args, "suiteName"))
  ELSE IF Nullish(Get(args, "tests")) THEN Throw(ReadError(Get(args, "tests"), "length"))
  ELSE Return(Obj(
         [status |-> Str("success"),
          suiteName |-> Get(args, "suiteName"),
          testsIncluded |-> Get(Get(args, "tests"), "length"),
          executionOrder |-> OrElse(Get(args, "executionOrder"), Str("sequential")),
          message |-> Str("Test suite '" \o JSToString(Get(args, "suiteName"))
                            \o "' created with "
                            \o JSToString(Get(Get(args, "tests"), "length")) \o " tests")]))

\* ScheduleTestExecution reading the type one level too deep
\* (params.schedule.schedule.type).
ScheduleTestExecution_WrongNesting(args) ==
  IF Nullish(args) THEN Throw(ReadError(args, "testOrSuite"))
  ELSE IF Nullish(Get(args, "schedule"))
  THEN Throw(ReadError(Get(args, "schedule"), "schedule"))
  ELSE IF Nullish(Get(Get(args, "schedule"), "schedule"))
  THEN Throw(ReadError(Get(Get(args, "schedule"), "schedule"), "type"))
  ELSE Return(Obj([status |-> Str("success"),
                   message |-> Str("Test scheduled")]))

ScheduleTestExecution(args) ==
  IF Nullish(args) THEN Throw(ReadError(args, "testOrSuite"))
  ELSE IF Nullish(Get(args, "schedule"))
  THEN Throw(ReadError(Get(args, "schedule"), "type"))
  ELSE LET schedule == Get(args, "schedule")
       IN  Return(Obj(
             [status |-> Str("success"),
              testOrSuite |-> Get(args, "testOrSuite"),
              scheduleType |-> Get(schedule, "type"),
              scheduledTime |-> Get(schedule, "time"),
              message |-> Str("Test scheduled for " \o JSToString(Get(schedule, "type"))
                                \o " execution at "
                                \o JSToString(Get(schedule, "time")))]))

\* GenerateTestDocumentation defaulting the output format to "pdf".
GenerateTestDocumentation_PdfDefault(args) ==
  IF Nullish(args) THEN Throw(ReadError(args, "testPath"))
  ELSE Return(Obj(
         [status |-> Str("success"),
          testPath |-> Get(args, "testPath"),
          documentationType |-> Get(args, "documentationType"),
          outputFormat |-> OrElse(Get(args, "outputFormat"), Str("pdf")),
          message |-> Str(JSToString(Get(args, "documentationType"))
                            \o " documentation generated")]))

GenerateTestDocumentation(args) ==
  IF Nullish(args) THEN Throw(ReadError(args, "testPath"))
  ELSE Return(Obj(
         [status |-> Str("success"),
          testPath |-> Get(args, "testPath"),
          documentationType |-> Get(args, "documentationType"),
          outputFormat |-> OrElse(Get(args, "outputFormat"), Str("html")),
          message |-> Str(JSToString(Get(args, "documentationType"))
                            \o " documentation generated")]))

DebugTestFailure(args) ==
  IF Nullish(args) THEN Throw(ReadError(args, "failedTestPath"))
  ELSE Return(Obj(
         [status |-> Str("success"),
          testPath |-> Get(args, "failedTestPath"),
          issuesFound |-> Num(3),
          suggestions |-> Arr(<< Str("Object not found - verify object repository is up to date"),
                                 Str("Timing issue detected - consider adding wait conditions"),
                                 Str("Data mismatch - check test data inputs") >>),
          message |-> Str("Failure analysis complete with 3 suggestions")]))

\* UnknownTool with the name left out of the message.
UnknownTool_NoName(name) == Throw("Unknown tool")

\* The default case of the switch.
UnknownTool(name) == Throw("Unknown tool: " \o name)

\* The switch with the last case label misspelt, so that a catalog name falls
\* through to the default case.
Dispatch_MissingCase(name, args, now) ==
  CASE name = "create_uft_test"             -> CreateUftTest(args, now)
    [] name = "execute_uft_test"            -> ExecuteUftTest(args)
    [] name = "analyze_test_results"        -> AnalyzeTestResults(args)
    [] name = "manage_object_repository"    -> ManageObjectRepository(args)
    [] name = "generate_test_data"          -> GenerateTestData(args)
    [] name = "capture_application_objects" -> CaptureApplicationObjects(args)
    [] name = "create_test_suite"           -> CreateTestSuite(args)
    [] name = "schedule_test_execution"     -> ScheduleTestExecution(args)
    [] name = "generate_test_documentation" -> GenerateTestDocumentation(args)
    [] name = "debug_test_failures"         -> DebugTestFailure(args)
    [] OTHER                                -> UnknownTool(name)

\* The switch: strict equality of the name with each case label.
Dispatch(name, args, now) ==
  CASE name = "create_uft_test"             -> CreateUftTest(args, now)
    [] name = "execute_uft_test"            -> ExecuteUftTest(args)
    [] name = "analyze_test_results"        -> AnalyzeTestResults(args)
    [] name = "manage_object_repository"    -> ManageObjectRepository(args)
    [] name = "generate_test_data"          -> GenerateTestData(args)
    [] name = "capture_application_objects" -> CaptureApplicationObjects(args)
    [] name = "create_test_suite"           -> CreateTestSuite(args)
    [] name = "schedule_test_execution"     -> ScheduleTestExecution(args)
    [] name = "generate_test_documentation" -> GenerateTestDocumentation(args)
    [] name = "debug_test_failure"          -> DebugTestFailure(args)
    [] OTHER                                -> UnknownTool(name)

\* CatchBlock with the error thrown on instead of converted.
CatchBlock_Rethrow(c) == c

\* The catch block: every Error thrown in the switch becomes the error result.
CatchBlock(c) ==
  Return(JSONstringify(Obj([status |-> Str("error"), message |-> Str(c.message)])))

\* handleToolCall with a module-level flag that the catch block sets and that
\* makes every later call fail: the flag is up when an error was answered.
handleToolCall_StickyError(name, args, now) ==
  LET c == Dispatch(name, args, now)
  IN  IF c.threw \/ "error" \in between
      THEN CatchBlock(IF c.threw THEN c ELSE Throw("Server is in a failed state"))
      ELSE Return(JSONstringify(c.value))

\* handleToolCall(name, args): the completion of the whole function.
handleToolCall(name, args, now) ==
  LET c == Dispatch(name, args, now)
  IN  IF c.threw THEN CatchBlock(c) ELSE Return(JSONstringify(c.value))

\* The statement after the await: the response that carries the awaited
\* result, or the rejection when handleToolCall threw.
ToolResponse(result) ==
  IF result.threw THEN result
  ELSE Return([content |-> << [type |-> "text", text |-> result.value] >>])

\* The call-tool request handler.
CallToolHandler(name, args, now) == ToolResponse(handleToolCall(name, args, now))

\* The list-tools handler removing the page it returns from the array.
ListToolsHandler_Splice(tools) ==
  [outcome |-> Return([tools |-> SubSeq(tools, 1, 5)]),
   catalog |-> SubSeq(tools, 6, Len(tools))]

\* The list-tools request handler, given the contents of UFT_TOOLS: its
\* response, and the contents of the array when it returns.
ListToolsHandler(tools) ==
  [outcome |-> Return([tools |-> tools]), catalog |-> tools]

-----------------------------------------------------------------------------
(* The requests the model sends *)

\* Longest `actions` array of a create_uft_test request.
MaxActions == 2

\* Longest `tests` array of a create_test_suite request.
MaxTests == 2

SeqsUpTo(S, n) == UNION {[1..k -> S] : k \in 0..n}

\* A JSON object: a key whose value is undefined is an absent key.
MkObj(f) == Obj([k \in {j \in DOMAIN f : f[j].t # "undefined"} |-> f[k]])

\* Values of `new Date().toISOString()`.
Timestamps == {"2026-01-01T00:00:00.000Z", "2026-01-02T00:00:00.000Z"}

\* Items of an `actions` array: two well-formed actions, one with an empty
\* value, and a null item.
ActionItems ==
  { Obj([type |-> Str("Click"), object |-> Str("Btn"), description |-> Str("press")]),
    Obj([type |-> Str("Set"), object |-> Str("Txt"), value |-> Str("v"),
         description |-> Str("fill")]),
    Obj([type |-> Str("Set"), object |-> Str("Txt"), value |-> Str(""),
         description |-> Str("clear")]),
    Null }

\* Arguments that are no JSON object: absent, null, a string, a number.
NonObjectArgs == {Undef, Null, Str("oops"), Num(1)}

\* What a string field may hold: absent, null, empty, a value, a number.
StringField(v) == {Undef, Null, Str(""), Str(v), Num(7)}

ScheduleValues ==
  {Undef, Null, Str("daily")} \cup
  { MkObj([type |-> ty, time |-> ti, date |-> da]) :
      ty \in {Undef, Str("daily"), Str("hourly")},
      ti \in {Undef, Str("09:00")},
      da \in {Undef, Str("2026-01-01")} }

ObjectArgs(name) ==
  CASE name = "create_uft_test" ->
         { MkObj([testName |-> a, testDescription |-> b, applicationUnderTest |-> c,
                  actions |-> d]) :
             a \in StringField("LoginTest"),
             b \in {Undef, Str("logs in"), Num(7)},
             c \in {Undef, Str("web")},
             d \in {Undef, Null, Str("x"), EmptyObj}
                     \cup {Arr(q) : q \in SeqsUpTo(ActionItems, MaxActions)} }
    [] name = "execute_uft_test" ->
         { MkObj([testPath |-> a, resultPath |-> b]) :
             a \in StringField("C:\\Tests\\Login"), b \in {Undef, Str("C:\\Results")} }
    [] name = "analyze_test_results" ->
         { MkObj([resultPath |-> a, reportFormat |-> b]) :
             a \in StringField("C:\\Results"),
             b \in {Undef, Str(""), Str("html"), Str("yaml"), Num(7)} }
    [] name = "manage_object_repository" ->
         { MkObj([action |-> a, objectName |-> b]) :
             a \in StringField("query") \cup {Str("add"), Str("rename")},
             b \in {Undef, Null, Str(""), Str("OkButton")} }
    [] name = "generate_test_data" ->
         { MkObj([dataType |-> a, schema |-> b, recordCount |-> c, outputPath |-> d]) :
             a \in {Undef, Str("csv"), Str("yaml"), Num(7)},
             b \in {Undef, Null, Str("x"), EmptyObj, Obj([id |-> Str("number")])},
             c \in {Undef, Null, Num(0), Num(5), Str("5")},
             d \in {Undef, Str(""), Str("out.csv")} }
    [] name = "capture_application_objects" ->
         { MkObj([applicationPath |-> a, captureMode |-> b]) :
             a \in StringField("app.exe"),
             b \in {Undef, Str("smart"), Str("turbo"), Num(7)} }
    [] name = "create_test_suite" ->
         { MkObj([suiteName |-> a, tests |-> b, executionOrder |-> c]) :
             a \in StringField("Smoke"),
             b \in {Undef, Null, Str("x"), Num(7)}
                     \cup {Arr(q) : q \in SeqsUpTo({Str("t1"), Str("t2")}, MaxTests)},
             c \in {Undef, Str("parallel"), Str("random")} }
    [] name = "schedule_test_execution" ->
         { MkObj([testOrSuite |-> a, schedule |-> b]) :
             a \in StringField("Smoke"), b \in ScheduleValues }
    [] name = "generate_test_documentation" ->
         { MkObj([testPath |-> a, documentationType |-> b, outputFormat |-> c]) :
             a \in StringField("C:\\Tests\\Login"),
             b \in {Undef, Str("detailed"), Str("verbose"), Num(7)},
             c \in {Undef, Str("pdf"), Str("docx")} }
    [] name = "debug_test_failure" ->
         { MkObj([failedTestPath |-> a, errorLogs |-> b]) :
             a \in StringField("C:\\Tests\\Login"), b \in {Undef, Str("timeout")} }
    [] OTHER ->
         { EmptyObj, Obj([testPath |-> Str("C:\\Tests\\Login")]) }

\* Names that are in no case label: unknown, empty, differing in case, a prefix
\* and an extension of a catalog name.
UnknownNames ==
  {"unknown_tool", "", "Create_UFT_Test", "create_uft", "execute_uft_test2"}

RequestNames == ToolNames \cup UnknownNames

ArgsFor(name) == NonObjectArgs \cup ObjectArgs(name)

-----------------------------------------------------------------------------
(* The MCP server *)

NoCall ==
  [called |-> FALSE, name |-> "", args |-> Undef, now |-> "", outcome |-> Return(Undef)]

NoList == [called |-> FALSE, outcome |-> Return(Undef)]

\* Most call-tool requests whose handlers run interleaved.
MaxInFlight == 2

\* A slot of `inflight` before its request arrives; `overlaps` notes whether
\* another handler was awaiting when this one started.
NoRequest ==
  [pc |-> "free", name |-> "", args |-> Undef, now |-> "", result |-> Return(Undef),
   responses |-> <<>>, overlaps |-> FALSE]

\* The requests of a session: a create_uft_test that succeeds, one that lacks
\* its actions, a manage_object_repository that succeeds, an execute_uft_test
\* without arguments and a name that is in no case label.
SessionRequests ==
  { [name |-> "create_uft_test",
     args |-> Obj([testName |-> Str("LoginTest"),
                   actions |-> Arr(<< Obj([type |-> Str("Click"), object |-> Str("Btn"),
                                           description |-> Str("press")]) >>)])],
    [name |-> "create_uft_test", args |-> Obj([testName |-> Str("LoginTest")])],
    [name |-> "manage_object_repository", args |-> Obj([action |-> Str("query")])],
    [name |-> "execute_uft_test", args |-> Undef],
    [name |-> "unknown_tool", args |-> EmptyObj] }

ServerInit ==
  /\ lastCall = NoCall
  /\ catalog = UFT_TOOLS
  /\ lastList = NoList
  /\ inflight = [i \in 1..MaxInFlight |-> NoRequest]
  /\ firstCall = NoCall
  /\ firstList = NoList
  /\ between = {}

\* No request is being answered.
Idle == ~lastCall.called /\ ~lastList.called

\* The call-tool handler runs for the request (name, args) at time `now`.
Serve(name, args, now) ==
  lastCall' = [called |-> TRUE, name |-> name, args |-> args, now |-> now,
               outcome |-> CallToolHandler(name, args, now)]

\* A call-tool request arrives and is handled to completion: the dispatcher
\* processes one invocation at a time, so none is outstanding when it starts.
CallTool ==
  /\ Idle
  /\ \E name \in RequestNames :
       \E args \in ArgsFor(name), now \in Timestamps :
         Serve(name, args, now)
  /\ UNCHANGED <<catalog, lastList, inflight, sessionVars, adapterVars>>

\* CallTool for one of the requests of a session.
SessionCall ==
  /\ Idle
  /\ \E r \in SessionRequests, now \in Timestamps : Serve(r.name, r.args, now)
  /\ UNCHANGED <<catalog, lastList, inflight, sessionVars, adapterVars>>

\* A list-tools request arrives and is handled to completion.
ListTools ==
  /\ Idle
  /\ LET e == ListToolsHandler(catalog)
     IN  /\ lastList' = [called |-> TRUE, outcome |-> e.outcome]
         /\ catalog' = e.catalog
  /\ UNCHANGED <<lastCall, inflight, sessionVars, adapterVars>>

\* The transport writes the response out: the server keeps nothing of the
\* request.
SendResponse ==
  /\ ~Idle
  /\ lastCall' = NoCall
  /\ lastList' = NoList
  /\ UNCHANGED <<catalog, inflight, sessionVars, adapterVars>>

\* What the response being sent is: the listing, a rejection, or the status of
\* the tool result.
AnswerKind ==
  IF lastList.called THEN "list"
  ELSE IF lastCall.outcome.threw THEN "rejected"
  ELSE JSToString(Get(JSONparse(lastCall.outcome.value.content[1].text), "status"))

\* SendResponse in a session whose answers are logged.
SendLoggedResponse ==
  /\ ~Idle
  /\ lastCall' = NoCall
  /\ lastList' = NoList
  /\ firstCall' = IF lastCall.called /\ ~firstCall.called THEN lastCall ELSE firstCall
  /\ firstList' = IF lastList.called /\ ~firstList.called THEN lastList ELSE firstList
  /\ between' = IF firstCall.called THEN between \cup {AnswerKind} ELSE between
  /\ UNCHANGED <<catalog, inflight, adapterVars>>

\* The handler of request i starts: it reads the request and runs
\* handleToolCall up to the await.
Receive(i) ==
  /\ inflight[i].pc = "free"
  /\ \E r \in SessionRequests, now \in Timestamps :
       inflight' = [inflight EXCEPT ![i] =
                      [pc |-> "awaiting", name |-> r.name, args |-> r.args, now |-> now,
                       result |-> handleToolCall(r.name, r.args, now),
                       responses |-> <<>>,
                       overlaps |-> \E j \in DOMAIN inflight :
                                      inflight[j].pc = "awaiting"]]
  /\ UNCHANGED <<lastCall, catalog, lastList, sessionVars, adapterVars>>

\* The awaited result read from a variable all handlers share: what the
\* handler started last (here the highest slot in use) stored.
AwaitedResult_Shared(i, flight) ==
  LET used == {j \in DOMAIN flight : flight[j].pc # "free"}
  IN  flight[CHOOSE j \in used : \A k \in used : k <= j].result

\* The value of the local `result` when handler i resumes after the await.
AwaitedResult(i, flight) == flight[i].result

\* handleToolCall waiting, for execute_uft_test, until the test run it started
\* has ended.
AwaitsExternalEvent_TestRun(name) == name = "execute_uft_test"

\* Whether handleToolCall, for the tool `name`, awaits something that another
\* party has to settle: no case of the switch contains an await.
AwaitsExternalEvent(name) == FALSE

\* The handler of request i resumes after the await, and its response is sent.
Resume(i) ==
  /\ inflight[i].pc = "awaiting"
  /\ ~AwaitsExternalEvent(inflight[i].name)
  /\ inflight' = [inflight EXCEPT
                    ![i].pc = "responded",
                    ![i].responses = Append(@, ToolResponse(AwaitedResult(i, inflight)))]
  /\ UNCHANGED <<lastCall, catalog, lastList, sessionVars, adapterVars>>

-----------------------------------------------------------------------------
(* The UFT keyword adapter *)

\* The keywords, in the order registerKeywords registers them.
Keywords ==
  << "MCP_Ping", "MCP_SendRequest", "MCP_ValidateResponse", "MCP_SetContext",
     "MCP_GetContext", "MCP_ExecutePrompt" >>

KeywordSet == {Keywords[i] : i \in 1..Len(Keywords)}

\* The sets of keywords for which the host's Register throws during one init:
\* none, or any single one.
RegisterFailures == {{}} \cup {{kw} : kw \in KeywordSet}

\* What MCP_GetContext answers for an empty slot.
Sentinel == Obj([id |-> Str("none"), type |-> Str("empty")])

\* One UFT.Reporter.ReportEvent(status, title, details) call.
ReportEvent(status, title, details) ==
  [status |-> status, title |-> title, details |-> details]

\* What a callback leaves behind: its completion, the slot, its reports.
Effect(result, context, reports) ==
  [result |-> result, context |-> context, reports |-> reports]

\* MCP_Ping returning without a call of the report sink.
MCP_Ping_NoReport(args, context, now) ==
  [result |-> Return(Obj([success |-> Bool(TRUE), timestamp |-> Str(now)])),
   context |-> context,
   reports |-> <<>>]

\* The MCP_Ping implementation.
MCP_Ping(args, context, now) ==
  LET message == IF Truthy(args) /\ Truthy(Get(args, "message"))
                 THEN Get(args, "message") ELSE Str("Ping successful")
  IN  Effect(Return(Obj([success |-> Bool(TRUE), timestamp |-> Str(now)])),
             context,
             << ReportEvent("Done", "MCP_Ping",
                  JSONstringify(Obj([message |-> message, timestamp |-> Str(now),
                                     args |-> args]))) >>)

\* MCP_SendRequest testing only `!args`, not `!args.endpoint`.
MCP_SendRequest_NoCheck(args, context, now, id) ==
  IF ~Truthy(args)
  THEN [result |-> Return(Obj([success |-> Bool(FALSE), error |-> Str("Missing endpoint")])),
        context |-> context,
        reports |-> << [status |-> "Failed", title |-> "MCP_SendRequest",
                        details |-> Str("Missing required parameter: endpoint")] >>]
  ELSE [result |-> Return(Obj([success |-> Bool(TRUE), requestId |-> Str(id),
                               request |-> Obj([endpoint |-> Get(args, "endpoint")])])),
        context |-> context,
        reports |-> << [status |-> "Done", title |-> "MCP_SendRequest",
                        details |-> JSONstringify(Obj([endpoint |-> Get(args, "endpoint")]))] >>]

\* The MCP_SendRequest implementation; `id` is the random request id.
MCP_SendRequest(args, context, now, id) ==
  IF ~Truthy(args) \/ ~Truthy(Get(args, "endpoint"))
  THEN Effect(Return(Obj([success |-> Bool(FALSE), error |-> Str("Missing endpoint")])),
              context,
              << ReportEvent("Failed", "MCP_SendRequest",
                             Str("Missing required parameter: endpoint")) >>)
  ELSE LET request == Obj([endpoint |-> Get(args, "endpoint"),
                           method |-> OrElse(Get(args, "method"), Str("POST")),
                           data |-> OrElse(Get(args, "data"), EmptyObj),
                           timestamp |-> Str(now)])
       IN  Effect(Return(Obj([success |-> Bool(TRUE), requestId |-> Str(id),
                              request |-> request])),
                  context,
                  << ReportEvent("Done", "MCP_SendRequest", JSONstringify(request)) >>)

\* ToNumber of the status values the model passes; NaN is kept as -1, which
\* compares false with 400 as NaN does.
ToNumber(v) ==
  CASE v.t = "number"  -> v.n
    [] v.t = "boolean" -> IF v.b THEN 1 ELSE 0
    [] v.t = "string"  -> IF v.s = "500" THEN 500 ELSE IF v.s = "200" THEN 200 ELSE -1
    [] OTHER           -> -1

\* MCP_ValidateResponse comparing the status with `> 400`.
MCP_ValidateResponse_Above400(args, context) ==
  IF ~Truthy(args) \/ ~Truthy(Get(args, "response"))
  THEN Effect(Return(Obj([success |-> Bool(FALSE), error |-> Str("Missing response")])),
              context,
              << ReportEvent("Failed", "MCP_ValidateResponse",
                             Str("Missing required parameter: response")) >>)
  ELSE LET status == Get(Get(args, "response"), "status")
           missing == ~Truthy(status)
           failed == Truthy(status) /\ ToNumber(status) > 400
           errors == (IF missing THEN <<Str("Missing status field")>> ELSE <<>>)
                     \o (IF failed
                         THEN <<Str("Error status code: " \o JSToString(status))>>
                         ELSE <<>>)
           validationResult == Obj([isValid |-> Bool(~missing /\ ~failed),
                                    errors |-> Arr(errors),
                                    warnings |-> Arr(<<>>)])
       IN  Effect(Return(validationResult),
                  context,
                  << ReportEvent(IF ~missing /\ ~failed THEN "Done" ELSE "Warning",
                                 "MCP_ValidateResponse",
                                 JSONstringify(validationResult)) >>)

\* The MCP_ValidateResponse implementation.
MCP_ValidateResponse(args, context) ==
  IF ~Truthy(args) \/ ~Truthy(Get(args, "response"))
  THEN Effect(Return(Obj([success |-> Bool(FALSE), error |-> Str("Missing response")])),
              context,
              << ReportEvent("Failed", "MCP_ValidateResponse",
                             Str("Missing required parameter: response")) >>)
  ELSE LET status == Get(Get(args, "response"), "status")
           missing == ~Truthy(status)
           failed == Truthy(status) /\ ToNumber(status) >= 400
           errors == (IF missing THEN <<Str("Missing status field")>> ELSE <<>>)
                     \o (IF failed
                         THEN <<Str("Error status code: " \o JSToString(status))>>
                         ELSE <<>>)
           validationResult == Obj([isValid |-> Bool(~missing /\ ~failed),
                                    errors |-> Arr(errors),
                                    warnings |-> Arr(<<>>)])
       IN  Effect(Return(validationResult),
                  context,
                  << ReportEvent(IF ~missing /\ ~failed THEN "Done" ELSE "Warning",
                                 "MCP_ValidateResponse",
                                 JSONstringify(validationResult)) >>)

\* MCP_ExecutePrompt embedding the slot as it is, without `|| {}`.
MCP_ExecutePrompt_NoFallback(args, context, now, id) ==
  IF ~Truthy(args) \/ ~Truthy(Get(args, "prompt"))
  THEN Effect(Return(Obj([success |-> Bool(FALSE), error |-> Str("Missing prompt")])),
              context,
              << ReportEvent("Failed", "MCP_ExecutePrompt",
                             Str("Missing required parameter: prompt")) >>)
  ELSE LET execution == Obj([prompt |-> Get(args, "prompt"),
                             parameters |-> OrElse(Get(args, "parameters"), EmptyObj),
                             context |-> context,
                             timestamp |-> Str(now),
                             executionId |-> Str(id)])
       IN  Effect(Return(Obj([success |-> Bool(TRUE), executionId |-> Str(id),
                              result |-> Obj([output |-> Str("Prompt executed successfully"),
                                              metadata |-> execution])])),
                  context,
                  << ReportEvent("Done", "MCP_ExecutePrompt", JSONstringify(execution)) >>)

\* The MCP_ExecutePrompt implementation; `id` is the random execution id.
MCP_ExecutePrompt(args, context, now, id) ==
  IF ~Truthy(args) \/ ~Truthy(Get(args, "prompt"))
  THEN Effect(Return(Obj([success |-> Bool(FALSE), error |-> Str("Missing prompt")])),
              context,
              << ReportEvent("Failed", "MCP_ExecutePrompt",
                             Str("Missing required parameter: prompt")) >>)
  ELSE LET execution == Obj([prompt |-> Get(args, "prompt"),
                             parameters |-> OrElse(Get(args, "parameters"), EmptyObj),
                             context |-> OrElse(context, EmptyObj),
                             timestamp |-> Str(now),
                             executionId |-> Str(id)])
       IN  Effect(Return(Obj([success |-> Bool(TRUE), executionId |-> Str(id),
                              result |-> Obj([output |-> Str("Prompt executed successfully"),
                                              metadata |-> execution])])),
                  context,
                  << ReportEvent("Done", "MCP_ExecutePrompt", JSONstringify(execution)) >>)

\* `Object.assign({}, a, b)` for two objects.
Merge(a, b) ==
  Obj([k \in DOMAIN a.f \cup DOMAIN b.f |-> IF k \in DOMAIN b.f THEN b.f[k] ELSE a.f[k]])

\* MCP_SetContext merging the new context into the stored one.
MCP_SetContext_Merge(args, context, now) ==
  IF ~Truthy(args) \/ ~Truthy(Get(args, "context"))
  THEN Effect(Return(Obj([success |-> Bool(FALSE), error |-> Str("Missing context")])),
              context,
              << ReportEvent("Failed", "MCP_SetContext",
                             Str("Missing required parameter: context")) >>)
  ELSE LET c == Get(args, "context")
       IN  Effect(Return(Obj([success |-> Bool(TRUE), context |-> c])),
                  IF c.t = "object" /\ context.t = "object" THEN Merge(context, c) ELSE c,
                  <<>>)

\* MCP_SetContext storing the whole argument mapping instead of args.context.
MCP_SetContext_StoresArgs(args, context, now) ==
  IF ~Truthy(args) \/ ~Truthy(Get(args, "context"))
  THEN Effect(Return(Obj([success |-> Bool(FALSE), error |-> Str("Missing context")])),
              context,
              << ReportEvent("Failed", "MCP_SetContext",
                             Str("Missing required parameter: context")) >>)
  ELSE Effect(Return(Obj([success |-> Bool(TRUE), context |-> Get(args, "context")])),
              args,
              <<>>)

\* The MCP_SetContext implementation, run with the slot holding `context`.
MCP_SetContext(args, context, now) ==
  IF ~Truthy(args) \/ ~Truthy(Get(args, "context"))
  THEN Effect(Return(Obj([success |-> Bool(FALSE), error |-> Str("Missing context")])),
              context,
              << ReportEvent("Failed", "MCP_SetContext",
                             Str("Missing required parameter: context")) >>)
  ELSE LET c == Get(args, "context")
       IN  Effect(Return(Obj([success |-> Bool(TRUE), context |-> c])),
                  c,
                  << ReportEvent("Done", "MCP_SetContext",
                       JSONstringify(Obj(
                         [contextId |-> OrElse(Get(c, "id"), Str("default")),
                          contextType |-> OrElse(Get(c, "type"), Str("unknown")),
                          timestamp |-> Str(now)]))) >>)

\* MCP_GetContext without the fallback to the sentinel.
MCP_GetContext_NoFallback(context) ==
  Effect(Return(Obj([success |-> Bool(TRUE), context |-> context])),
         context,
         << ReportEvent("Done", "MCP_GetContext", JSONstringify(context)) >>)

\* The MCP_GetContext implementation; it takes no arguments.
MCP_GetContext(context) ==
  LET c == OrElse(context, Sentinel)
  IN  Effect(Return(Obj([success |-> Bool(TRUE), context |-> c])),
             context,
             << ReportEvent("Done", "MCP_GetContext", JSONstringify(c)) >>)

\* OnTestStart without the reset.
OnTestStart_NoReset(context) == context

\* The handler installed with UFT.Events.OnTestStart: the slot after it ran.
OnTestStart(context) == Null

\* OnTestEnd clearing the slot as OnTestStart does.
OnTestEnd_Clears(context) == Null

\* The handler installed with UFT.Events.OnTestEnd: the slot after it ran.
OnTestEnd(context) == context

\* registerKeywords giving up at the first Register call that throws.
RECURSIVE RegisterFrom_StopsAtFailure(_, _)
RegisterFrom_StopsAtFailure(i, failing) ==
  IF i > Len(Keywords) \/ Keywords[i] \in failing THEN <<>>
  ELSE <<Keywords[i]>> \o RegisterFrom_StopsAtFailure(i + 1, failing)

\* The keywords registerKeywords leaves registered when Register throws for
\* the names in `failing`: registerKeyword catches each throw and goes on.
RECURSIVE RegisterFrom(_, _)
RegisterFrom(i, failing) ==
  IF i > Len(Keywords) THEN <<>>
  ELSE (IF Keywords[i] \in failing THEN <<>> ELSE <<Keywords[i]>>)
       \o RegisterFrom(i + 1, failing)

registerKeywords(hostHasRegister, failing) ==
  IF hostHasRegister THEN RegisterFrom(1, failing) ELSE <<>>

\* Context values a test script passes to MCP_SetContext.
ContextValues ==
  { Undef, Null, Str(""), Num(0), Bool(FALSE),
    EmptyObj, Str("session"),
    Obj([id |-> Str("A"), type |-> Str("T")]),
    Obj([id |-> Str("B")]),
    Obj([type |-> Str("U"), user |-> Str("u1")]) }

SetContextArgs == {Undef, Null} \cup {MkObj([context |-> c]) : c \in ContextValues}

PingArgs == {Undef, EmptyObj, Obj([message |-> Str("hello")])}

SendRequestArgs ==
  {Undef, EmptyObj, Obj([endpoint |-> Str("/api/test")]),
   Obj([endpoint |-> Str("/api/test"), method |-> Str("GET"),
        data |-> Obj([q |-> Str("1")])])}

ValidateResponseArgs ==
  {Undef, EmptyObj} \cup
  { MkObj([response |-> MkObj([status |-> st, body |-> Str("ok")])]) :
      st \in {Undef, Num(0), Num(200), Num(399), Num(400), Num(500), Str("500"), Str("OK")} }

ExecutePromptArgs ==
  {Undef, EmptyObj, Obj([prompt |-> Str("")]), Obj([prompt |-> Str("Summarise")]),
   Obj([prompt |-> Str("Summarise"), parameters |-> Obj([style |-> Str("short")])])}

\* Values of `Math.random().toString(36).substr(2, 9)`; it is empty when
\* Math.random() returns 0.
RandomIds == {"", "4fzyo82mv"}

NoOp == [op |-> "none", args |-> Undef, result |-> Return(Undef)]

\* The hosts: `register` says UFT.CustomKeywords.Register exists, `events` that
\* UFT.Events.OnTestStart and OnTestEnd exist, `installs` that OnTestStart
\* accepts a handler (it throws otherwise).
Hosts ==
  {h \in [register : BOOLEAN, events : BOOLEAN, installs : BOOLEAN] :
     ~h.installs => h.events}

\* One fault per host: where OnTestStart throws, Register does not.
RegisterFailuresOn(h) == IF h.installs THEN RegisterFailures ELSE {{}}

\* The number of init calls that pass the `initialized` guard.
MaxInits == 2

\* No MCP_GetContext result is remembered.
NoGot == [valid |-> FALSE, value |-> Undef]

AdapterInit ==
  /\ initialized = FALSE
  /\ currentContext = Undef
  /\ registered = <<>>
  /\ startHandlers = 0
  /\ endHandlers = 0
  /\ host \in Hosts
  /\ lastOp = NoOp
  /\ reported = <<>>
  /\ setInRun = FALSE
  /\ lastSet = Undef
  /\ prevSet = Undef
  /\ afterSet = FALSE
  /\ lastGot = NoGot

\* MCPExtension.init()
ExtInit ==
  \E failing \in RegisterFailuresOn(host) :
    /\ lastOp = NoOp
    /\ Len(registered) < MaxInits * Len(Keywords)
    /\ IF initialized
       THEN /\ UNCHANGED <<initialized, registered, startHandlers, endHandlers>>
            /\ reported' = <<>>
       ELSE /\ registered' = registered \o registerKeywords(host.register, failing)
            /\ IF host.installs
               THEN /\ startHandlers' = startHandlers + (IF host.events THEN 1 ELSE 0)
                    /\ endHandlers' = endHandlers + (IF host.events THEN 1 ELSE 0)
                    /\ initialized' = TRUE
                    /\ reported' = << ReportEvent("Done", "MCP Extension Initialized",
                                                  Str("Version: 0.1.0")) >>
               ELSE \* setupEventHandlers throws: init catches and logs
                    /\ UNCHANGED <<startHandlers, endHandlers, initialized>>
                    /\ reported' = <<>>
    /\ lastOp' = [op |-> "init", args |-> Undef, result |-> Return(Undef)]
    /\ afterSet' = FALSE
    /\ UNCHANGED <<currentContext, host, setInRun, lastSet, prevSet, lastGot,
                   serverVars>>

IsRegistered(kw) == \E i \in 1..Len(registered) : registered[i] = kw

\* The parts of the state no keyword callback changes.
KeywordFrame ==
  UNCHANGED <<initialized, registered, startHandlers, endHandlers, host, serverVars>>

\* The host runs the registered MCP_Ping callback.
Ping ==
  /\ lastOp = NoOp
  /\ IsRegistered("MCP_Ping")
  /\ \E args \in PingArgs, now \in Timestamps :
       LET e == MCP_Ping(args, currentContext, now)
       IN  /\ currentContext' = e.context
           /\ reported' = e.reports
           /\ lastOp' = [op |-> "MCP_Ping", args |-> args, result |-> e.result]
  /\ afterSet' = FALSE
  /\ UNCHANGED <<setInRun, lastSet, prevSet, lastGot>>
  /\ KeywordFrame

\* The host runs the registered MCP_SendRequest callback.
SendRequest ==
  /\ lastOp = NoOp
  /\ IsRegistered("MCP_SendRequest")
  /\ \E args \in SendRequestArgs, now \in Timestamps, id \in RandomIds :
       LET e == MCP_SendRequest(args, currentContext, now, id)
       IN  /\ currentContext' = e.context
           /\ reported' = e.reports
           /\ lastOp' = [op |-> "MCP_SendRequest", args |-> args, result |-> e.result]
  /\ afterSet' = FALSE
  /\ UNCHANGED <<setInRun, lastSet, prevSet, lastGot>>
  /\ KeywordFrame

\* The host runs the registered MCP_ValidateResponse callback.
ValidateResponse ==
  /\ lastOp = NoOp
  /\ IsRegistered("MCP_ValidateResponse")
  /\ \E args \in ValidateResponseArgs :
       LET e == MCP_ValidateResponse(args, currentContext)
       IN  /\ currentContext' = e.context
           /\ reported' = e.reports
           /\ lastOp' = [op |-> "MCP_ValidateResponse", args |-> args, result |-> e.result]
  /\ afterSet' = FALSE
  /\ UNCHANGED <<setInRun, lastSet, prevSet, lastGot>>
  /\ KeywordFrame

\* The host runs the registered MCP_ExecutePrompt callback.
ExecutePrompt ==
  /\ lastOp = NoOp
  /\ IsRegistered("MCP_ExecutePrompt")
  /\ \E args \in ExecutePromptArgs, now \in Timestamps, id \in RandomIds :
       LET e == MCP_ExecutePrompt(args, currentContext, now, id)
       IN  /\ currentContext' = e.context
           /\ reported' = e.reports
           /\ lastOp' = [op |-> "MCP_ExecutePrompt", args |-> args, result |-> e.result]
  /\ afterSet' = FALSE
  /\ UNCHANGED <<setInRun, lastSet, prevSet, lastGot>>
  /\ KeywordFrame

\* The host runs the registered MCP_SetContext callback.
SetContext ==
  /\ lastOp = NoOp
  /\ IsRegistered("MCP_SetContext")
  /\ \E args \in SetContextArgs, now \in Timestamps :
       LET e == MCP_SetContext(args, currentContext, now)
           ok == e.result.value.f.success.b
       IN  /\ currentContext' = e.context
           /\ reported' = e.reports
           /\ lastOp' = [op |-> "MCP_SetContext", args |-> args, result |-> e.result]
           /\ setInRun' = (setInRun \/ ok)
           /\ lastSet' = IF ok THEN Get(args, "context") ELSE lastSet
           /\ prevSet' = IF ~ok THEN prevSet ELSE IF setInRun THEN lastSet ELSE Undef
           /\ afterSet' = ok
           /\ lastGot' = IF ok THEN NoGot ELSE lastGot
  /\ KeywordFrame

\* The host runs the registered MCP_GetContext callback.
GetContext ==
  /\ lastOp = NoOp
  /\ IsRegistered("MCP_GetContext")
  /\ LET e == MCP_GetContext(currentContext)
     IN  /\ currentContext' = e.context
         /\ reported' = e.reports
         /\ lastOp' = [op |-> "MCP_GetContext", args |-> Undef, result |-> e.result]
         /\ lastGot' = [valid |-> TRUE, value |-> Get(e.result.value, "context")]
  /\ afterSet' = FALSE
  /\ UNCHANGED <<setInRun, lastSet, prevSet>>
  /\ KeywordFrame

\* The host fires its test-start event: the installed handler runs.
TestStart ==
  /\ lastOp = NoOp
  /\ startHandlers > 0
  /\ currentContext' = OnTestStart(currentContext)
  /\ reported' = <<>>
  /\ lastOp' = [op |-> "TestStart", args |-> Undef, result |-> Return(Undef)]
  /\ setInRun' = FALSE
  /\ prevSet' = Undef
  /\ afterSet' = FALSE
  /\ lastGot' = NoGot
  /\ UNCHANGED <<initialized, registered, startHandlers, endHandlers, host,
                 lastSet, serverVars>>

\* The host fires its test-end event: the installed handler runs.
TestEnd ==
  /\ lastOp = NoOp
  /\ endHandlers > 0
  /\ currentContext' = OnTestEnd(currentContext)
  /\ reported' = <<>>
  /\ lastOp' = [op |-> "TestEnd", args |-> Undef, result |-> Return(Undef)]
  /\ afterSet' = FALSE
  /\ UNCHANGED <<initialized, registered, startHandlers, endHandlers, host,
                 setInRun, lastSet, prevSet, lastGot, serverVars>>

\* The callback has returned: the host takes its outcome and goes on to the
\* next test step; callbacks run one at a time, each to completion.
HostProceeds ==
  /\ lastOp # NoOp
  /\ lastOp' = NoOp
  /\ reported' = <<>>
  /\ UNCHANGED <<initialized, currentContext, registered, startHandlers, endHandlers,
                 host, setInRun, lastSet, prevSet, afterSet, lastGot, serverVars>>

-----------------------------------------------------------------------------
(* The build script, tools/build.ps1 *)

\* $requiredFields, in the order Validate-Manifest checks them.
RequiredFields == << "name", "id", "version", "files", "vendor", "description" >>

\* A property name is a sequence of words (joined with "_" in the file), so
\* that a name can contain another; the six required names are one word each.
RequiredProps == {<<RequiredFields[i]>> : i \in 1..Len(RequiredFields)}

\* A src/extension/manifest.json: whether the file exists and parses, the
\* names of its top-level properties, whether its version reads x.y.z, and for
\* each entry of `files` whether src/extension holds that file.
Manifest(exists, json, props, semver, files) ==
  [exists |-> exists, json |-> json, props |-> props, semver |-> semver,
   files |-> files]

PropSets ==
  {RequiredProps, RequiredProps \cup {<<"homepage">>}, {}, {RequiredFields}}
  \cup {RequiredProps \ {p} : p \in RequiredProps}

FileRefs == {<<>>, <<TRUE>>, <<FALSE>>, <<TRUE, TRUE>>, <<TRUE, FALSE>>}

Manifests ==
  {Manifest(FALSE, FALSE, {}, FALSE, <<>>), Manifest(TRUE, FALSE, {}, FALSE, <<>>)}
  \cup {Manifest(TRUE, TRUE, p, s, f) : p \in PropSets, s \in BOOLEAN, f \in FileRefs}

\* `$manifestObj.PSObject.Properties.Name.Contains($field)`: with several
\* properties Name is the array of the names and Contains is membership; with
\* one property Name is that name and Contains tests for a substring.
ContainsField(props, field) ==
  IF Cardinality(props) = 1
  THEN \E n \in props : \E i \in 1..Len(n) : n[i] = field
  ELSE <<field>> \in props

\* The required fields Validate-Manifest finds missing, as indexes.
MissingFields(m) ==
  {i \in 1..Len(RequiredFields) : ~ContainsField(m.props, RequiredFields[i])}

Min(S) == CHOOSE x \in S : \A y \in S : x <= y

\* Validate-Manifest that does not look for the referenced files.
ValidateManifest_NoFileCheck(m) ==
  IF ~m.exists THEN Throw("Missing manifest.json")
  ELSE IF ~m.json THEN Throw("Invalid JSON in manifest.json")
  ELSE IF m.props = {} THEN Throw("You cannot call a method on a null-valued expression.")
  ELSE IF MissingFields(m) # {}
  THEN Throw("manifest.json missing required field: "
             \o RequiredFields[Min(MissingFields(m))])
  ELSE IF <<"version">> \notin m.props
  THEN Throw("The property 'version' cannot be found on this object.")
  ELSE Return(m)

\* Validate-Manifest: the manifest object, or the error it throws. Under
\* Set-StrictMode -Version Latest reading a property the object lacks throws.
ValidateManifest(m) ==
  IF ~m.exists THEN Throw("Missing manifest.json")
  ELSE IF ~m.json THEN Throw("Invalid JSON in manifest.json")
  ELSE IF m.props = {} THEN Throw("You cannot call a method on a null-valued expression.")
  ELSE IF MissingFields(m) # {}
  THEN Throw("manifest.json missing required field: "
             \o RequiredFields[Min(MissingFields(m))])
  ELSE IF <<"version">> \notin m.props
  THEN Throw("The property 'version' cannot be found on this object.")
  ELSE IF <<"files">> \notin m.props
  THEN Throw("The property 'files' cannot be found on this object.")
  ELSE IF \E i \in 1..Len(m.files) : ~m.files[i]
  THEN Throw("Manifest references missing file")
  ELSE Return(m)

\* The artifacts directory: whether it exists, and what it holds as
\* UFT-MCP-Ext_<version>.dxt and as UFT-MCP-Ext.dxt: nothing, the bundle of an
\* earlier build, or the bundle of this build.
Artifacts(dir, versioned, latest) ==
  [dir |-> dir, versioned |-> versioned, latest |-> latest]

\* No build is running.
NoBuild ==
  [pc |-> "none", clean |-> FALSE, manifest |-> Manifest(FALSE, FALSE, {}, FALSE, <<>>),
   dist |-> "absent", artifacts |-> Artifacts(FALSE, "none", "none"),
   validated |-> FALSE, exit |-> 0]

\* The states the script is started in: with or without -Clean, any manifest,
\* dist absent or left by an earlier build, artifacts absent or holding
\* earlier bundles.
BuildStarts ==
  {[pc |-> "clean", clean |-> c, manifest |-> m, dist |-> d, artifacts |-> a,
    validated |-> FALSE, exit |-> 0] :
     c \in BOOLEAN, m \in Manifests, d \in {"absent", "stale"},
     a \in {Artifacts(FALSE, "none", "none"), Artifacts(TRUE, "none", "old"),
            Artifacts(TRUE, "old", "old")}}

\* The catch block of the main build process: `exit 1`.
BuildFailed(b) == [b EXCEPT !.pc = "exited", !.exit = 1]

\* `if ($Clean) { ... }`: dist and artifacts are removed.
CleanPrevious ==
  /\ build.pc = "clean"
  /\ build' = IF build.clean
              THEN [build EXCEPT !.pc = "ensure", !.dist = "absent",
                                 !.artifacts = Artifacts(FALSE, "none", "none")]
              ELSE [build EXCEPT !.pc = "ensure"]
  /\ UNCHANGED runtimeVars

\* Ensure-Dir $Dist; Ensure-Dir $Artifacts
EnsureDirs ==
  /\ build.pc = "ensure"
  /\ build' = [build EXCEPT !.pc = "validate",
                            !.dist = IF @ = "absent" THEN "empty" ELSE @,
                            !.artifacts.dir = TRUE]
  /\ UNCHANGED runtimeVars

\* $manifestObj = Validate-Manifest -ManifestPath $Manifest
ValidateStep ==
  /\ build.pc = "validate"
  /\ build' = IF ValidateManifest(build.manifest).threw
              THEN BuildFailed(build)
              ELSE [build EXCEPT !.pc = "copy", !.validated = TRUE]
  /\ UNCHANGED runtimeVars

\* Copy-Item "$Src\*" -Destination $Dist -Recurse -Force
CopySources ==
  /\ build.pc = "copy"
  /\ build' = [build EXCEPT !.pc = "normalize", !.dist = "copied"]
  /\ UNCHANGED runtimeVars

\* Normalize-LineEndings -Directory $Dist
NormalizeLineEndings ==
  /\ build.pc = "normalize"
  /\ build' = [build EXCEPT !.pc = "bundle", !.dist = "normalized"]
  /\ UNCHANGED runtimeVars

\* Create-Bundle: the existing bundle is removed, dist is zipped and the
\* archive renamed; a failure of either is thrown on.
CreateBundle ==
  /\ build.pc = "bundle"
  /\ \E zipped \in BOOLEAN :
       build' = IF zipped
                THEN [build EXCEPT !.pc = "latest", !.artifacts.versioned = "new"]
                ELSE BuildFailed([build EXCEPT !.artifacts.versioned = "none"])
  /\ UNCHANGED runtimeVars

\* Copy-Item $outputPath -Destination $latestPath -Force, then the summary;
\* the script ends with exit code 0.
CopyLatest ==
  /\ build.pc = "latest"
  /\ build' = [build EXCEPT !.pc = "exited", !.artifacts.latest = "new"]
  /\ UNCHANGED runtimeVars

BuildNext ==
  \/ CleanPrevious
  \/ EnsureDirs
  \/ ValidateStep
  \/ CopySources
  \/ NormalizeLineEndings
  \/ CreateBundle
  \/ CopyLatest

-----------------------------------------------------------------------------
(* Specifications *)

Init == ServerInit /\ AdapterInit /\ build = NoBuild

\* A run of the build script; the runtime components are not running.
BuildInit ==
  /\ ServerInit
  /\ AdapterInit
  /\ host = [register |-> TRUE, events |-> TRUE, installs |-> TRUE]
  /\ build \in BuildStarts

ServerNext == CallTool \/ ListTools \/ SendResponse

SessionNext == SessionCall \/ ListTools \/ SendLoggedResponse

ConcurrentNext == \E i \in 1..MaxInFlight : Receive(i) \/ Resume(i)

IsolationNext == SessionCall \/ ListTools \/ SendResponse

AdapterNext ==
  \/ ExtInit
  \/ Ping
  \/ SendRequest
  \/ ValidateResponse
  \/ SetContext
  \/ GetContext
  \/ ExecutePrompt
  \/ TestStart
  \/ TestEnd
  \/ HostProceeds

Next == ServerNext \/ SessionNext \/ ConcurrentNext \/ AdapterNext \/ BuildNext

\* The MCP server alone: the adapter stays as constructed.
ServerSpec == Init /\ [][ServerNext]_vars

\* The UFT adapter alone: the server receives no request.
AdapterSpec == Init /\ [][AdapterNext]_vars

\* A session of the MCP server: requests answered one after the other, with
\* the log of its answers.
SessionSpec == Init /\ [][SessionNext]_vars

\* Call-tool handlers that interleave at their await; a handler that awaits a
\* settled promise is resumed.
ConcurrentSpec ==
  /\ Init
  /\ [][ConcurrentNext]_vars
  /\ \A i \in 1..MaxInFlight : WF_vars(Resume(i))

\* The MCP server and the UFT adapter side by side, on a host that offers
\* keyword registration and test events (a host without one of them only
\* takes callbacks away).
IsolationInit == Init /\ host = [register |-> TRUE, events |-> TRUE, installs |-> TRUE]

IsolationSpec == IsolationInit /\ [][IsolationNext \/ AdapterNext]_vars

\* The build script runs its steps one after the other to its end.
BuildSpec == BuildInit /\ [][BuildNext]_vars /\ WF_vars(BuildNext)

Spec == Init /\ [][Next]_vars

-----------------------------------------------------------------------------
(* Properties of the tool dispatcher *)

\* A response was produced for the request in lastCall.
Responded == lastCall.called /\ ~lastCall.outcome.threw

\* The parsed text of the response's single content item.
ToolResult == JSONparse(lastCall.outcome.value.content[1].text)

\* r.k of a parsed result, undefined when r is no object or has no such key.
Field(r, k) == IF r.t = "object" /\ k \in DOMAIN r.f THEN r.f[k] ELSE Undef

\* The arguments are a JSON object.
IsObject(v) == v.t = "object"

\* The value v has the JSON type ty; the items of an `actions` array are
\* objects and the items of a `tests` array are strings.
HasType(k, v) ==
  /\ v.t = DeclaredType(k)
  /\ k = "actions" => \A i \in 1..Len(v.a) : v.a[i].t = "object"
  /\ k = "tests" => \A i \in 1..Len(v.a) : v.a[i].t = "string"

\* Every field the schema of tool `name` requires is present and typed as declared.
RequiredWellTyped(name, args) ==
  /\ IsObject(args)
  /\ \A k \in Required(name) : HasType(k, Get(args, k))

\* Exactly the required field k is missing; the other required fields are
\* present and typed as declared.
OmitsOnly(name, args, k) ==
  /\ IsObject(args)
  /\ k \in Required(name)
  /\ Get(args, k).t = "undefined"
  /\ \A j \in Required(name) \ {k} : HasType(j, Get(args, j))

\* The messages of the runtime that quote the property name k.
MessageNames(m, k) ==
  m.t = "string" /\ m.s \in {ReadError(Undef, k), ReadError(Null, k)}

\* C1: for every tool name and every arguments value, handleToolCall does not
\* throw: the response carries one text item that parses as a JSON object with
\* a status of "success" or "error" and a string message.
C1_AlwaysStructuredResult ==
  lastCall.called =>
    /\ ~lastCall.outcome.threw
    /\ Len(lastCall.outcome.value.content) = 1
    /\ ToolResult.t = "object"
    /\ Field(ToolResult, "status") \in {Str("success"), Str("error")}
    /\ Field(ToolResult, "message").t = "string"

\* C1 witness: a catalog tool called with null arguments, answered by an error
\* result.
C1_Witness ==
  /\ Responded
  /\ lastCall.name = "create_test_suite"
  /\ lastCall.args = Null
  /\ Field(ToolResult, "status") = Str("error")
  /\ Field(ToolResult, "message").t = "string"

\* C2 (as claimed): omitting one required field of a catalog tool yields an
\* error result whose message names the missing field.
C2_MissingRequiredRejected ==
  (lastCall.called /\ lastCall.name \in ToolNames) =>
    \A k \in Required(lastCall.name) :
      OmitsOnly(lastCall.name, lastCall.args, k) =>
        /\ Responded
        /\ Field(ToolResult, "status") = Str("error")
        /\ MessageNames(Field(ToolResult, "message"), k)

\* C3: a catalog tool invoked with all its required fields present and typed
\* as declared answers with status "success".
C3_WellTypedSucceeds ==
  (lastCall.called /\ lastCall.name \in ToolNames
     /\ RequiredWellTyped(lastCall.name, lastCall.args)) =>
    /\ Responded
    /\ Field(ToolResult, "status") = Str("success")

\* C3 witness: a well-typed schedule_test_execution call answered with success.
C3_Witness ==
  /\ Responded
  /\ lastCall.name = "schedule_test_execution"
  /\ RequiredWellTyped(lastCall.name, lastCall.args)
  /\ Field(ToolResult, "status") = Str("success")

\* C4: a name that is not in the catalog, with any arguments, answers with
\* status "error" and the message "Unknown tool: " followed by the name.
C4_UnknownToolError ==
  (lastCall.called /\ lastCall.name \notin ToolNames) =>
    /\ Responded
    /\ Field(ToolResult, "status") = Str("error")
    /\ Field(ToolResult, "message") = Str("Unknown tool: " \o lastCall.name)

\* C4 witness: a name differing from a catalog name only in case, called with
\* an arguments object, answered with the error result.
C4_Witness ==
  /\ Responded
  /\ lastCall.name = "Create_UFT_Test"
  /\ IsObject(lastCall.args)
  /\ Field(ToolResult, "message") = Str("Unknown tool: Create_UFT_Test")

\* A top-level string field of the arguments holds a string outside the
\* enumeration the tool's schema declares for it.
OutOfEnum(name, args) ==
  /\ IsObject(args)
  /\ \E k \in DOMAIN ToolNamed(name).enums :
       /\ Get(args, k).t = "string"
       /\ Get(args, k).s \notin ToolNamed(name).enums[k]

\* C5 (as claimed): a catalog tool invoked with all required fields present and
\* a constrained string field outside its enumeration answers with status "error".
C5_OutOfEnumRejected ==
  (lastCall.called /\ lastCall.name \in ToolNames
     /\ RequiredWellTyped(lastCall.name, lastCall.args)
     /\ OutOfEnum(lastCall.name, lastCall.args)) =>
    /\ Responded
    /\ Field(ToolResult, "status") = Str("error")
    /\ Field(ToolResult, "message").t = "string"

\* The `schedule` mapping lacks the nested field type or the nested field time.
LacksNested(args) ==
  /\ IsObject(args)
  /\ Get(args, "testOrSuite").t = "string"
  /\ Get(args, "schedule").t = "object"
  /\ \/ Get(Get(args, "schedule"), "type").t = "undefined"
     \/ Get(Get(args, "schedule"), "time").t = "undefined"

\* C6 (as claimed): schedule_test_execution with a schedule lacking type or
\* time answers with status "error", never with success.
C6_MissingNestedRejected ==
  (lastCall.called /\ lastCall.name = "schedule_test_execution"
     /\ LacksNested(lastCall.args)) =>
    /\ Responded
    /\ Field(ToolResult, "status") = Str("error")
    /\ Field(ToolResult, "message").t = "string"

-----------------------------------------------------------------------------
(* Properties of the context slot *)

\* The last callback the host ran was MCP_GetContext.
GotContext == lastOp.op = "MCP_GetContext"

\* The `context` of the mapping the last callback returned.
ReturnedContext == Field(lastOp.result.value, "context")

\* C7: MCP_GetContext invoked before any successful MCP_SetContext of the run,
\* also before any test-start event has fired, returns the sentinel context
\* {id:"none", type:"empty"}.
C7_GetBeforeSetIsSentinel ==
  (GotContext /\ ~setInRun) =>
    /\ ~lastOp.result.threw
    /\ Field(lastOp.result.value, "success") = Bool(TRUE)
    /\ ReturnedContext = Obj([id |-> Str("none"), type |-> Str("empty")])

\* C7 witness: MCP_GetContext answered with the sentinel while the slot has
\* never been written, neither by MCP_SetContext nor by a test start.
C7_Witness ==
  /\ GotContext
  /\ ~setInRun
  /\ currentContext = Undef
  /\ ReturnedContext = Obj([id |-> Str("none"), type |-> Str("empty")])

\* C8: a successful MCP_SetContext({context: c}) immediately followed by
\* MCP_GetContext returns c unchanged as the context of the result.
C8_RoundTrip ==
  [][(afterSet /\ lastOp'.op = "MCP_GetContext") =>
       /\ ~lastOp'.result.threw
       /\ Field(lastOp'.result.value, "context") = lastSet]_vars

\* C8 witness: MCP_GetContext returned a context with two fields, the one the
\* preceding successful MCP_SetContext was given.
C8_Witness ==
  /\ GotContext
  /\ setInRun
  /\ prevSet = Undef
  /\ lastSet = Obj([id |-> Str("A"), type |-> Str("T")])
  /\ ReturnedContext = lastSet

C10_LastWriteWins ==
  (GotContext /\ setInRun) =>
    /\ ReturnedContext = lastSet
    /\ currentContext = lastSet

\* C10 witness: MCP_GetContext returned a one-field context although a context
\* with other fields had been stored before it in the same run.
C10_Witness ==
  /\ GotContext
  /\ setInRun
  /\ prevSet = Obj([type |-> Str("U"), user |-> Str("u1")])
  /\ lastSet = Obj([id |-> Str("B")])
  /\ ReturnedContext = Obj([id |-> Str("B")])

-----------------------------------------------------------------------------
(* Properties of the keyword surface *)

\* The argument each keyword checks for before doing anything else.
RequiredArgument ==
  [MCP_SendRequest |-> "endpoint", MCP_ValidateResponse |-> "response",
   MCP_SetContext |-> "context", MCP_ExecutePrompt |-> "prompt"]

\* The keyword kw was invoked with no arguments, or without its required argument.
ArgumentAbsent(kw, args) ==
  \/ args = Undef
  \/ args.t = "object" /\ RequiredArgument[kw] \notin DOMAIN args.f

\* C11: a keyword with a required argument, invoked with no arguments or with
\* that argument absent, returns {success:false, error:"Missing <argument>"},
\* reports one "Failed" event and leaves the context slot unchanged.
C11_MissingArgumentFails ==
  [][(lastOp = NoOp /\ lastOp'.op \in DOMAIN RequiredArgument
        /\ ArgumentAbsent(lastOp'.op, lastOp'.args)) =>
       /\ lastOp'.result =
            Return(Obj([success |-> Bool(FALSE),
                        error |-> Str("Missing " \o RequiredArgument[lastOp'.op])]))
       /\ Len(reported') = 1
       /\ reported'[1].status = "Failed"
       /\ reported'[1].title = lastOp'.op
       /\ currentContext' = currentContext]_vars

\* C11 witness: MCP_SendRequest invoked with an empty mapping failed, with one
\* "Failed" report, while the slot held a context.
C11_Witness ==
  /\ lastOp.op = "MCP_SendRequest"
  /\ lastOp.args = EmptyObj
  /\ Field(lastOp.result.value, "error") = Str("Missing endpoint")
  /\ Len(reported) = 1
  /\ reported[1].status = "Failed"
  /\ currentContext = Obj([id |-> Str("A"), type |-> Str("T")])

\* C12 (as claimed): every invocation of each of the six keywords, succeeding
\* or failing, returns a mapping with a boolean `success` field.
C12_ResultHasSuccess ==
  lastOp.op \in KeywordSet =>
    /\ ~lastOp.result.threw
    /\ lastOp.result.value.t = "object"
    /\ Field(lastOp.result.value, "success").t = "boolean"

\* C13: every invocation of any of the six keywords, succeeding or failing its
\* argument check, has called the report sink exactly once when it returns.
C13_ReportsExactlyOnce ==
  lastOp.op \in KeywordSet =>
    /\ ~lastOp.result.threw
    /\ Len(reported) = 1
    /\ reported[1].title = lastOp.op
    /\ reported[1].status \in {"Done", "Warning", "Failed"}

\* C13 witness: MCP_ValidateResponse, given a response with status 500,
\* returned after its single "Warning" report.
C13_Witness ==
  /\ lastOp.op = "MCP_ValidateResponse"
  /\ Field(lastOp.result.value, "isValid") = Bool(FALSE)
  /\ Len(reported) = 1
  /\ reported[1].status = "Warning"

-----------------------------------------------------------------------------
(* Properties of the catalog and of single tools *)

\* The response is the default case's error for the requested name.
AnsweredUnknownTool ==
  /\ Responded
  /\ Field(ToolResult, "status") = Str("error")
  /\ Field(ToolResult, "message") = Str("Unknown tool: " \o lastCall.name)

\* C15: the catalog's names are pairwise distinct, and the names that reach a
\* handler (do not answer "Unknown tool") are exactly the catalog's names,
\* compared by string equality.
C15_CatalogMatchesDispatcher ==
  /\ \A i, j \in 1..Len(UFT_TOOLS) : UFT_TOOLS[i].name = UFT_TOOLS[j].name => i = j
  /\ lastCall.called => (lastCall.name \in ToolNames <=> ~AnsweredUnknownTool)

\* C15 witness: the last catalog tool was called with an arguments object and
\* its handler answered.
C15_Witness ==
  /\ Responded
  /\ lastCall.name = UFT_TOOLS[Len(UFT_TOOLS)].name
  /\ IsObject(lastCall.args)
  /\ Field(ToolResult, "status") = Str("success")
  /\ Field(ToolResult, "testPath") = Str("C:\\Tests\\Login")

\* The request is create_uft_test with a string testName and an array of
\* action objects.
CreatesTestWithActions ==
  /\ lastCall.called
  /\ lastCall.name = "create_uft_test"
  /\ IsObject(lastCall.args)
  /\ Get(lastCall.args, "testName").t = "string"
  /\ Get(lastCall.args, "actions").t = "array"
  /\ \A i \in 1..Len(Get(lastCall.args, "actions").a) :
       IsObject(Get(lastCall.args, "actions").a[i])

\* C19: create_uft_test with a testName and a list of n actions answers
\* success, with `actions` equal to n and a non-empty script whose title line
\* carries the testName.
C19_CreateReportsCountAndScript ==
  CreatesTestWithActions =>
    /\ Responded
    /\ Field(ToolResult, "status") = Str("success")
    /\ Field(ToolResult, "actions") = Num(Len(Get(lastCall.args, "actions").a))
    /\ Field(ToolResult, "testScript").t = "string"
    /\ Len(Field(ToolResult, "testScript").lines) > 0
    /\ \E i \in 1..Len(Field(ToolResult, "testScript").lines) :
         Field(ToolResult, "testScript").lines[i]
           = "' UFT Test Script: " \o Get(lastCall.args, "testName").s

\* C19 witness: "LoginTest" with two actions answered with actions = 2 and a
\* script of eleven lines.
C19_Witness ==
  /\ CreatesTestWithActions
  /\ Responded
  /\ Get(lastCall.args, "testName") = Str("LoginTest")
  /\ Field(ToolResult, "actions") = Num(2)
  /\ Len(Field(ToolResult, "testScript").lines) = 11

\* The request is manage_object_repository with an action of its enumeration.
ManagesWithValidAction ==
  /\ lastCall.called
  /\ lastCall.name = "manage_object_repository"
  /\ IsObject(lastCall.args)
  /\ Get(lastCall.args, "action").t = "string"
  /\ Get(lastCall.args, "action").s \in ToolNamed(lastCall.name).enums["action"]

\* C20 (as claimed): with a valid action, an absent objectName is reported as
\* "N/A" and a present objectName is reported unchanged.
C20_ObjectNameEchoed ==
  ManagesWithValidAction =>
    /\ Responded
    /\ Field(ToolResult, "status") = Str("success")
    /\ Get(lastCall.args, "objectName") = Undef =>
         Field(ToolResult, "objectName") = Str("N/A")
    /\ Get(lastCall.args, "objectName").t = "string" =>
         Field(ToolResult, "objectName") = Get(lastCall.args, "objectName")

\* C20 (amended): with a valid action, an absent, null or empty objectName is
\* reported as "N/A" and a non-empty objectName is reported unchanged.
C20_ObjectNameOrDefault ==
  ManagesWithValidAction =>
    /\ Responded
    /\ Field(ToolResult, "status") = Str("success")
    /\ Get(lastCall.args, "objectName") \in {Undef, Null, Str("")} =>
         Field(ToolResult, "objectName") = Str("N/A")
    /\ (Get(lastCall.args, "objectName").t = "string"
          /\ Get(lastCall.args, "objectName") # Str("")) =>
         Field(ToolResult, "objectName") = Get(lastCall.args, "objectName")

\* C20 witness: action "query" without objectName answered with "N/A".
C20_Witness ==
  /\ ManagesWithValidAction
  /\ Responded
  /\ lastCall.args = Obj([action |-> Str("query")])
  /\ Field(ToolResult, "objectName") = Str("N/A")

-----------------------------------------------------------------------------
(* Properties of sessions, interleaved handlers and the two components *)

\* The list-tools request being answered did not open the session: a listing
\* and, since the first tool call, a success and an error were answered before.
ListedAfterOthers ==
  /\ lastList.called
  /\ firstList.called
  /\ {"success", "error", "list"} \subseteq between

\* C14: whatever list-tools requests and tool invocations were answered before,
\* a list-tools request is answered with the ten tool definitions of the
\* catalog in their order, the answer of the first list-tools request, and the
\* handler changes no state: not the catalog, not the adapter.
C14_ListingIsFixedAndPure ==
  [][(~lastList.called /\ lastList'.called) =>
       /\ ~lastList'.outcome.threw
       /\ lastList'.outcome.value.tools = UFT_TOOLS
       /\ Len(lastList'.outcome.value.tools) = 10
       /\ firstList.called => lastList'.outcome = firstList.outcome
       /\ catalog' = catalog
       /\ UNCHANGED <<lastCall, inflight, adapterVars>>]_vars

\* C14 witness: a list-tools request answered with the catalog after an
\* earlier listing, a successful and a failing tool invocation.
C14_Witness ==
  /\ ListedAfterOthers
  /\ lastList.outcome.value.tools = UFT_TOOLS
  /\ catalog = UFT_TOOLS

\* The request being answered has the name and arguments of the first request
\* of the session.
SameRequestAgain ==
  /\ lastCall.called
  /\ firstCall.called
  /\ lastCall.name = firstCall.name
  /\ lastCall.args = firstCall.args

\* The outcome of a call with the "' Generated: <timestamp>" line of a
\* testScript blanked.
WithoutTimestamp(outcome) ==
  IF outcome.threw THEN outcome
  ELSE LET r == JSONparse(outcome.value.content[1].text)
       IN  IF r.t = "object" /\ "testScript" \in DOMAIN r.f
           THEN Obj([r.f EXCEPT !["testScript"].lines[4] = "' Generated: "])
           ELSE r

C17_OneOwnResponseEach ==
  /\ [](\A i \in 1..MaxInFlight :
          /\ inflight[i].pc # "responded" => inflight[i].responses = <<>>
          /\ inflight[i].pc = "responded" =>
               /\ Len(inflight[i].responses) = 1
               /\ inflight[i].responses[1] =
                    CallToolHandler(inflight[i].name, inflight[i].args, inflight[i].now)
               /\ ~inflight[i].responses[1].threw
               /\ Len(inflight[i].responses[1].value.content) = 1)
  /\ \A i \in 1..MaxInFlight :
       (inflight[i].pc = "awaiting") ~> (inflight[i].pc = "responded")

\* C17 witness: two requests with different results, the second started while
\* the first was awaiting, both responded to.
C17_Witness ==
  /\ inflight[1].pc = "responded"
  /\ inflight[2].pc = "responded"
  /\ inflight[2].overlaps
  /\ inflight[1].name = "create_uft_test"
  /\ inflight[2].name = "unknown_tool"
  /\ inflight[1].responses # inflight[2].responses
  /\ Len(inflight[1].responses) = 1
  /\ Len(inflight[2].responses) = 1

\* The step is one of the server's: a request is handled or its response sent.
ServerStep == lastCall' # lastCall \/ lastList' # lastList

\* The step is one of the adapter's: a callback runs or the host takes its
\* outcome.
AdapterStep == lastOp' # lastOp \/ initialized' # initialized

\* C18: a step of the server leaves the adapter's context slot, its
\* initialized flag and all the rest of the adapter as they are, and a step of
\* the adapter leaves the catalog and the requests being answered as they are;
\* whatever the adapter has done since a request was handled, the outcome of a
\* tool invocation is what the handler computes from its name and arguments,
\* and the outcome of a list-tools request is the catalog.
C18_ComponentsIsolated ==
  /\ [][/\ ServerStep => UNCHANGED <<currentContext, initialized, adapterVars>>
        /\ AdapterStep => UNCHANGED <<catalog, lastCall, lastList, inflight>>]_vars
  /\ [](/\ lastCall.called =>
             lastCall.outcome
               = CallToolHandler(lastCall.name, lastCall.args, lastCall.now)
        /\ lastList.called => lastList.outcome = Return([tools |-> UFT_TOOLS]))

\* C18 witness: a tool invocation is being answered while the adapter, which
\* is initialized and holds a context, has just run MCP_GetContext.
C18_Witness ==
  /\ lastCall.called
  /\ lastCall.name = "manage_object_repository"
  /\ Field(ToolResult, "objectName") = Str("N/A")
  /\ initialized
  /\ currentContext = Obj([id |-> Str("A"), type |-> Str("T")])
  /\ lastOp.op = "MCP_GetContext"

-----------------------------------------------------------------------------
(* Further properties of the keyword adapter *)

\* The callbacks that are to leave the context slot alone.
SlotReaders ==
  {"MCP_Ping", "MCP_SendRequest", "MCP_ValidateResponse", "MCP_GetContext",
   "MCP_ExecutePrompt", "TestEnd"}

\* The host runs a callback in this step.
CallbackRuns == lastOp = NoOp /\ lastOp' # NoOp

\* C21: a step that changes the context slot is a successful MCP_SetContext or
\* a test start; MCP_Ping, MCP_SendRequest, MCP_ValidateResponse,
\* MCP_GetContext, MCP_ExecutePrompt and the test-end handler leave it as it
\* was, and a MCP_GetContext that follows an earlier one with nothing but those
\* in between returns what the earlier one returned.
C21_SlotFrame ==
  [][/\ currentContext' # currentContext =>
          \/ lastOp'.op = "TestStart"
          \/ /\ lastOp'.op = "MCP_SetContext"
             /\ Field(lastOp'.result.value, "success") = Bool(TRUE)
     /\ (CallbackRuns /\ lastOp'.op \in SlotReaders) => currentContext' = currentContext
     /\ (CallbackRuns /\ lastOp'.op = "MCP_GetContext" /\ lastGot.valid) =>
          Field(lastOp'.result.value, "context") = lastGot.value]_vars

\* C21 witness: a test end has just run on a slot that holds the context a
\* MCP_GetContext returned before it.
C21_Witness ==
  /\ lastOp.op = "TestEnd"
  /\ lastGot.valid
  /\ lastGot.value = Obj([id |-> Str("A"), type |-> Str("T")])
  /\ currentContext = lastGot.value

\* C22 (as claimed): MCP_SetContext invoked with a context that is present but
\* an empty mapping fails (success false) and leaves the slot as it was.
C22_EmptyContextRejected ==
  [][(CallbackRuns /\ lastOp'.op = "MCP_SetContext"
        /\ Get(lastOp'.args, "context") = EmptyObj) =>
       /\ Field(lastOp'.result.value, "success") = Bool(FALSE)
       /\ currentContext' = currentContext]_vars

-----------------------------------------------------------------------------
(* Termination of requests *)

\* C23: every call-tool request whose handler has started is eventually
\* answered, with one response that is no rejection, whether it names a
\* catalog tool, an unknown tool or carries malformed arguments.
C23_EveryRequestAnswered ==
  \A i \in 1..MaxInFlight :
    (inflight[i].pc = "awaiting") ~>
      (/\ inflight[i].pc = "responded"
       /\ Len(inflight[i].responses) = 1
       /\ ~inflight[i].responses[1].threw)

\* C23 witness: a request for an unknown tool and an execute_uft_test without
\* arguments have both been answered.
C23_Witness ==
  /\ inflight[1].pc = "responded"
  /\ inflight[1].name = "unknown_tool"
  /\ ~inflight[1].responses[1].threw
  /\ inflight[2].pc = "responded"
  /\ inflight[2].name = "execute_uft_test"
  /\ inflight[2].args = Undef
  /\ ~inflight[2].responses[1].threw

-----------------------------------------------------------------------------
(* Optional fields and the generated script *)

\* For each tool with a defaulted optional field: the argument, the field of
\* the result that reports it, and the fixed default ("" where the default is
\* built from another argument).
OptionalFields ==
  [analyze_test_results |->
     [arg |-> "reportFormat", field |-> "format", default |-> "summary"],
   capture_application_objects |->
     [arg |-> "captureMode", field |-> "captureMode", default |-> "automatic"],
   create_test_suite |->
     [arg |-> "executionOrder", field |-> "executionOrder", default |-> "sequential"],
   generate_test_documentation |->
     [arg |-> "outputFormat", field |-> "outputFormat", default |-> "html"],
   generate_test_data |->
     [arg |-> "outputPath", field |-> "outputPath", default |-> ""]]

\* The default the claim names for the optional field of the request.
ClaimedDefault ==
  IF lastCall.name = "generate_test_data"
  THEN Str("generated_data." \o Get(lastCall.args, "dataType").s)
  ELSE Str(OptionalFields[lastCall.name].default)

\* The request is for a tool with a defaulted optional field, and its required
\* fields are present and typed as declared.
CallsWithOptionalField ==
  /\ lastCall.called
  /\ lastCall.name \in DOMAIN OptionalFields
  /\ RequiredWellTyped(lastCall.name, lastCall.args)

ClaimedStep(action, i) ==
  << "' Step " \o ToString(i) \o ": " \o Get(action, "description").s,
     Get(action, "object").s \o "." \o Get(action, "type").s
       \o (IF Get(action, "value").t = "string" /\ Get(action, "value").s # ""
           THEN " \"" \o Get(action, "value").s \o "\""
           ELSE ""),
     "" >>

\* C25: the script of create_uft_test has, after its five header lines,
\* exactly one step per action, in input order, numbered from 1 to n; each
\* step is "<object>.<type>", followed by the quoted value only when the
\* action has a non-empty value.
C25_OneStepPerAction ==
  CreatesTestWithActions =>
    LET actions == Get(lastCall.args, "actions").a
        lines == Field(ToolResult, "testScript").lines
    IN  /\ Responded
        /\ Len(lines) = 5 + 3 * Len(actions)
        /\ \A i \in 1..Len(actions) :
             SubSeq(lines, 3 + 3 * i, 5 + 3 * i) = ClaimedStep(actions[i], i)

\* C25 witness: two actions, the first with a value and the second with an
\* empty one, gave steps 1 and 2 in that order, the second without quotes.
C25_Witness ==
  /\ CreatesTestWithActions
  /\ Responded
  /\ Len(Get(lastCall.args, "actions").a) = 2
  /\ Field(ToolResult, "testScript").lines[6] = "' Step 1: fill"
  /\ Field(ToolResult, "testScript").lines[7] = "Txt.Set \"v\""
  /\ Field(ToolResult, "testScript").lines[9] = "' Step 2: clear"
  /\ Field(ToolResult, "testScript").lines[10] = "Txt.Set"

-----------------------------------------------------------------------------
(* Validation, prompts and initialization *)

\* MCP_ValidateResponse has just run on arguments that carry a response.
ValidatedAResponse ==
  /\ lastOp.op = "MCP_ValidateResponse"
  /\ Truthy(lastOp.args)
  /\ Truthy(Get(lastOp.args, "response"))

\* The status the validated response carries.
ResponseStatus == Get(Get(lastOp.args, "response"), "status")

\* The status converts to a number (it is not NaN as a number).
IsNumeric(v) ==
  \/ v.t \in {"number", "boolean"}
  \/ v.t = "string" /\ v.s \in {"200", "500"}

\* isValid is true exactly when the errors list is empty, and the event is
\* "Done" exactly when isValid is true and "Warning" otherwise.
ValidationConsistent ==
  /\ Field(lastOp.result.value, "isValid").t = "boolean"
  /\ Field(lastOp.result.value, "isValid").b
       <=> Field(lastOp.result.value, "errors") = Arr(<<>>)
  /\ Len(reported) = 1
  /\ reported[1].status
       = IF Field(lastOp.result.value, "isValid").b THEN "Done" ELSE "Warning"

\* C26 (as claimed): isValid is true exactly when the errors list is empty,
\* which is exactly when the status is truthy and below 400; the event is
\* "Done" exactly when isValid is true and "Warning" otherwise.
C26_ValidBelow400 ==
  ValidatedAResponse =>
    /\ ValidationConsistent
    /\ Field(lastOp.result.value, "isValid").b
         <=> /\ Truthy(ResponseStatus)
             /\ IsNumeric(ResponseStatus)
             /\ ToNumber(ResponseStatus) < 400

\* C26 (amended): isValid is true exactly when the errors list is empty,
\* which is exactly when the status is truthy and does not compare `>= 400`:
\* a truthy status that is no number is valid; the event is "Done" exactly
\* when isValid is true and "Warning" otherwise.
C26_ValidUnlessAtLeast400 ==
  ValidatedAResponse =>
    /\ ValidationConsistent
    /\ Field(lastOp.result.value, "isValid").b
         <=> /\ Truthy(ResponseStatus)
             /\ ~(IsNumeric(ResponseStatus) /\ ToNumber(ResponseStatus) >= 400)

\* C26 witness: a response with status 400 was found invalid, with one error,
\* and reported as "Warning".
C26_Witness ==
  /\ ValidatedAResponse
  /\ ResponseStatus = Num(400)
  /\ Field(lastOp.result.value, "isValid") = Bool(FALSE)
  /\ Field(lastOp.result.value, "errors") = Arr(<<Str("Error status code: 400")>>)
  /\ reported[1].status = "Warning"

\* The context a MCP_ExecutePrompt result carries in its metadata.
EmbeddedContext(result) ==
  Field(Field(Field(result, "result"), "metadata"), "context")

\* The host runs MCP_ExecutePrompt with a (non-empty) prompt in this step.
ExecutesPrompt ==
  /\ CallbackRuns
  /\ lastOp'.op = "MCP_ExecutePrompt"
  /\ Truthy(lastOp'.args)
  /\ Truthy(Get(lastOp'.args, "prompt"))

\* C27: MCP_ExecutePrompt with a prompt succeeds and embeds in its result
\* metadata the context of the most recent successful MCP_SetContext of the
\* run, or {} when none was set since the start or since the last test start,
\* and it leaves the slot as it was.
C27_PromptEmbedsContext ==
  [][ExecutesPrompt =>
       /\ Field(lastOp'.result.value, "success") = Bool(TRUE)
       /\ EmbeddedContext(lastOp'.result.value)
            = IF setInRun THEN lastSet ELSE EmptyObj
       /\ currentContext' = currentContext]_vars

\* C27 witness: a prompt was executed after a context was set and carries that
\* context, which the slot still holds.
C27_Witness ==
  /\ lastOp.op = "MCP_ExecutePrompt"
  /\ setInRun
  /\ lastSet = Obj([id |-> Str("A"), type |-> Str("T")])
  /\ EmbeddedContext(lastOp.result.value) = lastSet
  /\ currentContext = lastSet

\* The number of Register calls for kw that returned.
Registrations(kw) == Cardinality({i \in 1..Len(registered) : registered[i] = kw})

\* C28: over any sequence of init calls, each of the six keywords is
\* registered with the host at most once and the test-start and test-end
\* handlers are installed at most once.
C28_RegisteredAtMostOnce ==
  /\ \A kw \in KeywordSet : Registrations(kw) <= 1
  /\ startHandlers <= 1
  /\ endHandlers <= 1

\* The keywords in registration order without kw.
KeywordsWithout(kw) == SelectSeq(Keywords, LAMBDA k : k # kw)

\* An init has just run on a host that offers keyword registration and
\* accepts event handlers.
InitRan ==
  /\ lastOp.op = "init"
  /\ host.register
  /\ host.installs

\* C29: after an init during which Register threw for at most one keyword, all
\* the other keywords are registered, in the order of registration, the event
\* handlers the host offers are installed once each, initialized is true and
\* init has returned normally.
C29_RegistrationFailureIsolated ==
  InitRan =>
    /\ \/ registered = Keywords
       \/ \E kw \in KeywordSet : registered = KeywordsWithout(kw)
    /\ startHandlers = (IF host.events THEN 1 ELSE 0)
    /\ endHandlers = (IF host.events THEN 1 ELSE 0)
    /\ initialized
    /\ lastOp.result = Return(Undef)

\* C29 witness: Register threw for MCP_ValidateResponse, the third keyword; the
\* two before it and the three after it are registered in order, both handlers
\* are installed and initialized is true.
C29_Witness ==
  /\ lastOp.op = "init"
  /\ registered = << "MCP_Ping", "MCP_SendRequest", "MCP_SetContext",
                     "MCP_GetContext", "MCP_ExecutePrompt" >>
  /\ startHandlers = 1
  /\ endHandlers = 1
  /\ initialized

-----------------------------------------------------------------------------
(* Properties of the build script *)

\* The manifest exists, parses as JSON, has all six required fields and
\* references only existing files.
ManifestValid(m) ==
  /\ m.exists
  /\ m.json
  /\ RequiredProps \subseteq m.props
  /\ \A i \in 1..Len(m.files) : m.files[i]

\* The artifacts directory holds a bundle of this build.
BundleWritten == build.artifacts.versioned = "new" \/ build.artifacts.latest = "new"

\* dist holds the sources this build copied.
SourcesCopied == build.dist \in {"copied", "normalized"}

\* C30: a bundle of this build exists only once Validate-Manifest has passed,
\* which it does only for a manifest that exists, parses, has the six required
\* fields and references only existing files; a build whose manifest fails one
\* of these checks copies no sources to dist, writes no bundle, and ends with
\* exit code 1.
C30_ValidationPrecedesBundling ==
  /\ [](BundleWritten => build.validated)
  /\ [](build.validated => ManifestValid(build.manifest))
  /\ [](~ManifestValid(build.manifest) => ~SourcesCopied /\ ~BundleWritten)
  /\ [][(build'.artifacts.versioned # build.artifacts.versioned
         \/ build'.artifacts.latest # build.artifacts.latest)
        => (build.validated \/ build.pc = "clean")]_vars
  /\ ~ManifestValid(build.manifest) ~> (build.pc = "exited" /\ build.exit = 1)

\* C30 witness: a build without -Clean whose manifest references a missing
\* file has ended with exit code 1; dist and the earlier bundles are as the
\* earlier build left them.
C30_Witness ==
  /\ build.pc = "exited"
  /\ build.exit = 1
  /\ ~build.clean
  /\ build.manifest = Manifest(TRUE, TRUE, RequiredProps, TRUE, <<TRUE, FALSE>>)
  /\ build.dist = "stale"
  /\ build.artifacts = Artifacts(TRUE, "old", "old")

=============================================================================
